---- MODULE Spec2Model ----
(***************************************************************************)
(* A model of the xvoice media-to-text pipeline:                           *)
(*   src/src/transcription.py    format_timestamp, transcribe_audio,       *)
(*                               transcribe_audio_batch, save_transcription,*)
(*                               process_audio_file                        *)
(*   src/src/preprocessing.py    normalize_audio, split_audio              *)
(*   src/src/video_processing.py download_youtube_audio                    *)
(*                                                                         *)
(* Times that the code holds as Python floats (seconds) are fixed-point    *)
(* integers here: TicksPerSecond ticks make one second.  Strings are       *)
(* sequences of one-character strings, so that formatting is computed      *)
(* character by character and can be read back.                            *)
(***************************************************************************)
EXTENDS Integers, Sequences, FiniteSets, TLC

\* ------------------------------------------------------------------ bounds

\* Resolution of the fixed-point model of float seconds.
TicksPerSecond == 2

\* ------------------------------------------------------- Python primitives

Secs(n) == n * TicksPerSecond

DigitChars == <<"0", "1", "2", "3", "4", "5", "6", "7", "8", "9">>

IsDigit(c) == \E i \in 1..10 : DigitChars[i] = c

DigitVal(c) == (CHOOSE i \in 1..10 : DigitChars[i] = c) - 1

\* str(n) for a natural number n.
RECURSIVE DecimalOf(_)
DecimalOf(n) ==
    IF n < 10 THEN <<DigitChars[n + 1]>>
    ELSE DecimalOf(n \div 10) \o <<DigitChars[(n % 10) + 1]>>

\* The value of a non-empty string of digits.
RECURSIVE DigitsValue(_)
DigitsValue(s) ==
    IF Len(s) = 0 THEN 0
    ELSE 10 * DigitsValue(SubSeq(s, 1, Len(s) - 1)) + DigitVal(s[Len(s)])

AllDigits(s) == Len(s) > 0 /\ \A i \in 1..Len(s) : IsDigit(s[i])

\* f"{n:02}": the sign, then the digits zero-padded so that the whole field
\* is at least two characters wide.
Format02(n) ==
    IF n >= 0
    THEN IF n < 10 THEN <<"0">> \o DecimalOf(n) ELSE DecimalOf(n)
    ELSE <<"-">> \o DecimalOf(-n)

\* Python values handed to format_timestamp:
\*   [kind |-> "num", v |-> ticks]   an int or a float, in ticks
\*   [kind |-> "str", s |-> chars]   a string
\*   [kind |-> "none"]               None
\*   [kind |-> "list"]               a list
Num(t) == [kind |-> "num", v |-> t]
Str(s) == [kind |-> "str", s |-> s]
PyNone == [kind |-> "none"]
PyList == [kind |-> "list"]

\* float(x): a finite value in ticks, nan, inf, or the exception raised.
PyFloat(x) ==
    CASE x.kind = "num" -> [tag |-> "ok", v |-> x.v]
      [] x.kind = "str" ->
            IF AllDigits(x.s)
              THEN [tag |-> "ok", v |-> Secs(DigitsValue(x.s))]
            ELSE IF Len(x.s) > 1 /\ x.s[1] = "-" /\ AllDigits(Tail(x.s))
              THEN [tag |-> "ok", v |-> 0 - Secs(DigitsValue(Tail(x.s)))]
            ELSE IF x.s = <<"n", "a", "n">> THEN [tag |-> "nan", v |-> 0]
            ELSE IF x.s = <<"i", "n", "f">> THEN [tag |-> "inf", v |-> 0]
            ELSE [tag |-> "ValueError", v |-> 0]
      [] OTHER -> [tag |-> "TypeError", v |-> 0]

\* int(f) of a float: truncation toward zero; int(nan) raises ValueError and
\* int(inf) raises OverflowError.
PyInt(f) ==
    CASE f.tag = "ok" ->
            [tag |-> "ok",
             v |-> IF f.v >= 0 THEN f.v \div TicksPerSecond
                   ELSE 0 - ((0 - f.v) \div TicksPerSecond)]
      [] f.tag = "nan" -> [tag |-> "ValueError", v |-> 0]
      [] f.tag = "inf" -> [tag |-> "OverflowError", v |-> 0]
      [] OTHER -> f

\* --------------------------------------------------------- format_timestamp

DefaultTimestamp == <<"[", "0", "0", ":", "0", "0", ":", "0", "0", "]">>

Returned(val) == [exc |-> "none", val |-> val]
Raised(e) == [exc |-> e, val |-> <<>>]

\* format_timestamp(seconds): the value returned, or the exception that
\* leaves the function (only ValueError is caught).
format_timestamp(seconds) ==
    LET i == PyInt(PyFloat(seconds)) IN
    IF i.tag = "ok"
    THEN LET hours     == i.v \div 3600
             remainder == i.v % 3600
             minutes   == remainder \div 60
             secs      == remainder % 60
         IN Returned(<<"[">> \o Format02(hours) \o <<":">> \o Format02(minutes)
                     \o <<":">> \o Format02(secs) \o <<"]">>)
    ELSE IF i.tag = "ValueError" THEN Returned(DefaultTimestamp)
    ELSE Raised(i.tag)

\* ------------------------------------------------------------------- state

VARIABLES
    pc,            \* the position of the running call
    caller,        \* "test": the function was called directly;
                   \* "process_audio_file": it runs inside process_audio_file
    ts_arg,        \* format_timestamp: the argument
    ts_ret,        \* format_timestamp: the result
    files,         \* the audio files on disk: path -> content
    dirs,          \* the directories on disk
    sp_input,      \* split_audio: input_path
    sp_outdir,     \* split_audio: output_dir
    sp_max,        \* split_audio: max_duration, in seconds
    sp_i,          \* split_audio: the loop variable i
    sp_paths,      \* split_audio: file_paths
    sp_ret,        \* split_audio: the list returned, or the exception raised
    device,        \* the device the speech model is on: "cuda" or "cpu"
    ooms,          \* how many recognition calls failed with CUDA out of memory
    outcome,       \* what the speech model answers for a file, once known
    invoked,       \* how many times model.transcribe ran on each file
    oom_log,       \* the files on which it ran out of memory, in order
    audio_files,   \* transcribe_audio_batch: audio_files
    acc_arg,       \* transcribe_audio_batch: accumulated_time as first passed
    accumulated_time, \* transcribe_audio_batch: accumulated_time
    transcriptions,   \* transcribe_audio_batch: transcriptions
    ba_src,        \* for each element of transcriptions, its place in audio_files
    ba_i,          \* transcribe_audio_batch: the place of file_path in audio_files
    ba_ret,        \* transcribe_audio_batch: what the call returned
    ta_file,       \* transcribe_audio: file_path
    ta_arg,        \* transcribe_audio: accumulated_time as first passed
    ta_acc,        \* transcribe_audio: accumulated_time
    ta_ret,        \* transcribe_audio: what the call returned
    fold_i,        \* transcribe_audio called file by file: the place in the list
    fold_recs,     \* ... the records collected
    fold_acc,      \* ... the accumulated time threaded through the calls
    sv_input,      \* save_transcription: transcriptions
    sv_i,          \* save_transcription: the place of transcription in it
    sv_ret,        \* save_transcription: "pending", "saved" or "failed"
    transcript,    \* the transcript file output_txt: whether it exists, its lines
    na_input,      \* normalize_audio: input_path
    na_output,     \* normalize_audio: output_path
    na_denoise,    \* normalize_audio: noise_reduction
    norm_failed,   \* the steps of normalize_audio whose ffmpeg run exited non-zero
    use_normalization, \* process_audio_file: use_normalization
    paf_input,     \* process_audio_file: input_path
    paf_output,    \* process_audio_file: output_path
    split_files,   \* process_audio_file: split_files
    paf_k,         \* process_audio_file: the place of split_file in split_files
    gpu_released,  \* torch.cuda.empty_cache() and gc.collect() have run
    paf_ret,       \* process_audio_file: "pending", "returned", or "caught"
                   \* when its except clause caught an exception
    processed,     \* the processed_urls set objects: name -> set of URLs;
                   \* "default" is the default argument of the function
    dl_files,      \* the video_* files in output_dir
    dl_n,          \* how many calls of download_youtube_audio were made
    dl_batch,      \* the batch run the calls belong to
    dl_url,        \* download_youtube_audio: video_url of the last call
    dl_set,        \* download_youtube_audio: the set the last call was given
    dl_ret,        \* download_youtube_audio: "path" or "None" as the last call
                   \* returned, "raised" when an exception left it
    meta_calls,    \* how many times the metadata tool was run
    run_calls,     \* how many times the download tool was run
    succ,          \* per set and URL, how many downloads succeeded
    dl_acquired    \* the URLs downloaded in the current batch run

ts_vars == <<ts_arg, ts_ret>>
fs_vars == <<files, dirs>>
sp_vars == <<sp_input, sp_outdir, sp_max, sp_i, sp_paths, sp_ret>>
env_vars == <<device, ooms, outcome, invoked, oom_log>>
ba_vars == <<audio_files, acc_arg, accumulated_time, transcriptions, ba_src, ba_i, ba_ret>>
fold_vars == <<fold_i, fold_recs, fold_acc>>
ta_vars == <<ta_file, ta_arg, ta_acc, ta_ret, fold_vars>>
sv_vars == <<sv_input, sv_i, sv_ret, transcript>>
na_vars == <<na_input, na_output, na_denoise, norm_failed>>
paf_vars == <<use_normalization, paf_input, paf_output, split_files, paf_k,
              gpu_released, paf_ret>>

dl_vars == <<processed, dl_files, dl_n, dl_batch, dl_url, dl_set, dl_ret,
             meta_calls, run_calls, succ, dl_acquired>>

vars == <<pc, caller, ts_vars, fs_vars, sp_vars, env_vars, ba_vars, ta_vars, sv_vars,
          na_vars, paf_vars, dl_vars>>

\* What the actions of one function leave alone of the other functions.
not_ts == <<sp_vars, env_vars, ba_vars, ta_vars, sv_vars, na_vars, paf_vars, dl_vars>>
not_sp == <<ts_vars, env_vars, ba_vars, ta_vars, sv_vars, na_vars, paf_vars, dl_vars>>
not_ba == <<ts_vars, sp_vars, ta_vars, sv_vars, na_vars, paf_vars, dl_vars>>
not_ta == <<ts_vars, sp_vars, ba_vars, sv_vars, na_vars, paf_vars, dl_vars>>
not_sv == <<ts_vars, sp_vars, env_vars, ba_vars, ta_vars, na_vars, paf_vars, dl_vars>>
not_na == <<ts_vars, sp_vars, env_vars, ba_vars, ta_vars, sv_vars, paf_vars, dl_vars>>

NoResult == [exc |-> "pending", val |-> <<>>]

\* -------------------------------------------------- format_timestamp, called

\* Seconds at which the fields of the timestamp roll over, and the examples
\* of the specification.
TimestampSeconds ==
    (0..61) \cup {99, 298, 300, 598, 3599, 3600, 3725, 86399, 359999, 360000}

TimestampInputs ==
    {Num(Secs(s) + f) : s \in TimestampSeconds, f \in 0..(TicksPerSecond - 1)}
    \cup {Num(0 - t) : t \in 1..Secs(2)}
    \cup {Str(<<"1", "2">>), Str(<<"3", "7", "2", "5">>), Str(<<"-", "1">>),
          Str(<<"a", "b", "c">>), Str(<<>>), Str(<<"1", "2", "x">>),
          Str(<<"n", "a", "n">>), Str(<<"i", "n", "f">>)}
    \cup {PyNone, PyList}

ts_idle == ts_arg = PyNone /\ ts_ret = NoResult

\* One call of format_timestamp(ts_arg).
FormatTimestampCall ==
    /\ pc = "fmt_call"
    /\ ts_ret' = format_timestamp(ts_arg)
    /\ pc' = "fmt_done"
    /\ UNCHANGED <<caller, ts_arg, fs_vars, not_ts>>

\* ------------------------------------------------------------ the file system

\* A path: directory, stem of the file name, part number (0: not a part),
\* and what follows the stem: "wav", "denoised" (_denoised.wav) or "txt".
Path(d, stem, part, tag) == [dir |-> d, stem |-> stem, part |-> part, tag |-> tag]

\* The content of an audio file: the span [lo, hi) in milliseconds of the
\* recording it holds, and what produced it.
Audio(lo, hi, stage) == [lo |-> lo, hi |-> hi, stage |-> stage]

Exists(p) == p \in DOMAIN files

\* files with path p written (created or overwritten) with content c.
WriteFile(fs, p, c) == [q \in (DOMAIN fs) \cup {p} |-> IF q = p THEN c ELSE fs[q]]

\* files with path p removed.
RemoveFile(fs, p) == [q \in (DOMAIN fs) \ {p} |-> fs[q]]

NoPath == Path("", "", 0, "")

\* AudioSegment.from_wav(p) succeeds: the file exists and holds decodable audio.
Decodable(p) == IF Exists(p) THEN files[p].stage # "garbled" ELSE FALSE

\* ----------------------------------------------------------------- split_audio

Min(a, b) == IF a <= b THEN a ELSE b

\* math.ceil(a / b) for a >= 0, b > 0.
Ceil(a, b) == (a + b - 1) \div b

\* len(audio), in milliseconds.
AudioLen(c) == c.hi - c.lo

\* audio[start:end]: pydub clips both ends to the audio.
Slice(c, start, end) ==
    Audio(c.lo + Min(start, AudioLen(c)), c.lo + Min(end, AudioLen(c)), c.stage)

\* A mutant of num_parts: the quotient is rounded down, so a shorter last
\* part is never cut.
num_parts_floor(c, max_duration) == AudioLen(c) \div (max_duration * 1000)

\* math.ceil(duration / max_duration), duration = len(audio) / 1000.
num_parts(c, max_duration) == Ceil(AudioLen(c), max_duration * 1000)

\* os.path.join(output_dir, f"{basename without .wav}_part{i+1}.wav")
part_filename(input_path, output_dir, i) ==
    Path(output_dir, input_path.stem, i + 1, "wav")

\* start_time and end_time of part i.
part_bounds(c, max_duration, i) ==
    [start |-> i * max_duration * 1000,
     end   |-> Min((i + 1) * max_duration * 1000, AudioLen(c))]

\* A mutant of needs_no_split: the comparison is strict.
needs_no_split_strict(c, max_duration) ==
    AudioLen(c) < max_duration * 1000

\* duration <= max_duration.
needs_no_split(c, max_duration) ==
    AudioLen(c) <= max_duration * 1000

ta_idle ==
    /\ ta_file = NoPath /\ ta_arg = 0 /\ ta_acc = 0
    /\ ta_ret = [exc |-> "pending", rec |-> <<>>, acc |-> 0]
    /\ fold_i = 0 /\ fold_recs = <<>> /\ fold_acc = 0

sp_idle ==
    /\ sp_input = NoPath /\ sp_outdir = "" /\ sp_max = 0
    /\ sp_i = 0 /\ sp_paths = <<>> /\ sp_ret = NoResult

\* Where split_audio returns to.
SplitReturnPc == IF caller = "process_audio_file" THEN "paf_after_split" ELSE "split_done"

\* AudioSegment.from_wav(input_path) fails: the file is missing or is not
\* decodable audio.  The exception leaves split_audio.
SplitDecodeError ==
    /\ pc = "split_entry"
    /\ ~Decodable(sp_input)
    /\ sp_ret' = Raised("DecodeError")
    /\ pc' = SplitReturnPc
    /\ UNCHANGED <<caller, not_sp, fs_vars, sp_input, sp_outdir, sp_max, sp_i, sp_paths>>

\* The audio is within max_duration: return [input_path].
SplitShort ==
    /\ pc = "split_entry"
    /\ Decodable(sp_input)
    /\ needs_no_split(files[sp_input], sp_max)
    /\ sp_ret' = Returned(<<sp_input>>)
    /\ pc' = SplitReturnPc
    /\ UNCHANGED <<caller, not_sp, fs_vars, sp_input, sp_outdir, sp_max, sp_i, sp_paths>>

\* The audio is longer: os.makedirs(output_dir, exist_ok=True) and enter the loop.
SplitLong ==
    /\ pc = "split_entry"
    /\ Decodable(sp_input)
    /\ ~needs_no_split(files[sp_input], sp_max)
    /\ dirs' = dirs \cup {sp_outdir}
    /\ sp_i' = 0
    /\ sp_paths' = <<>>
    /\ pc' = "split_loop"
    /\ UNCHANGED <<caller, not_sp, files, sp_input, sp_outdir, sp_max, sp_ret>>

\* One iteration of the loop: slice part i, export it, append its path.
SplitExport ==
    /\ pc = "split_loop"
    /\ sp_i < num_parts(files[sp_input], sp_max)
    /\ LET b == part_bounds(files[sp_input], sp_max, sp_i)
           part == Slice(files[sp_input], b.start, b.end)
           name == part_filename(sp_input, sp_outdir, sp_i)
       IN /\ files' = WriteFile(files, name, part)
          /\ sp_paths' = Append(sp_paths, name)
    /\ sp_i' = sp_i + 1
    /\ UNCHANGED <<pc, caller, not_sp, dirs, sp_input, sp_outdir, sp_max, sp_ret>>

\* The loop is over: return file_paths.
SplitReturn ==
    /\ pc = "split_loop"
    /\ sp_i >= num_parts(files[sp_input], sp_max)
    /\ sp_ret' = Returned(sp_paths)
    /\ pc' = SplitReturnPc
    /\ UNCHANGED <<caller, not_sp, fs_vars, sp_input, sp_outdir, sp_max, sp_i, sp_paths>>

split_audio == SplitDecodeError \/ SplitShort \/ SplitLong \/ SplitExport \/ SplitReturn

\* ------------------------------------------------------------ the speech model

\* The most CUDA out-of-memory failures in one run.
MaxOom == 2

\* The most files in a list given to transcribe_audio_batch.
MaxChunks == 3

\* What model.transcribe(file_path) answers, other than by running out of
\* memory: "ok" is a result with text whose last segment ends at d ticks;
\* "notext" a result without "text"; "nosegs" a result with text and no
\* segments; "err" an exception other than CUDA out of memory.
Ok(d) == [kind |-> "ok", d |-> d]
NoText == [kind |-> "notext", d |-> 0]
NoSegs == [kind |-> "nosegs", d |-> 0]
Err == [kind |-> "err", d |-> 0]

\* The end offsets of the last segment, in ticks: half a second, and the
\* 99 s, 298 s and 300 s of the specification's scenario.
Durations == {1, Secs(99), Secs(298), Secs(300)}

Outcomes == {Ok(d) : d \in Durations} \cup {NoText, NoSegs, Err}

Known(p) == p \in DOMAIN outcome

Invocations(p) == IF p \in DOMAIN invoked THEN invoked[p] ELSE 0

\* f with f[k] set to v, k added to its domain if need be.
Put(f, k, v) == [x \in (DOMAIN f) \cup {k} |-> IF x = k THEN v ELSE f[x]]

env_idle ==
    device = "cuda" /\ ooms = 0 /\ outcome = <<>> /\ invoked = <<>> /\ oom_log = <<>>

\* model.transcribe(p) raises RuntimeError("CUDA out of memory"): the handler
\* moves the model to the cpu.
ModelOom(p) ==
    /\ ooms < MaxOom
    /\ ooms' = ooms + 1
    /\ device' = "cpu"
    /\ invoked' = Put(invoked, p, Invocations(p) + 1)
    /\ oom_log' = Append(oom_log, p)
    /\ UNCHANGED outcome

\* model.transcribe(p) answers o: the answer is the file's, the same at
\* every call.
ModelAnswers(p, o) ==
    /\ IF Known(p) THEN o = outcome[p] ELSE o \in Outcomes
    /\ outcome' = Put(outcome, p, o)
    /\ invoked' = Put(invoked, p, Invocations(p) + 1)
    /\ UNCHANGED <<device, ooms, oom_log>>

\* ---------------------------------------------------------- clean_transcription

IsSpace(c) == c = " "

\* re.sub(r"\s+", " ", text).strip()
RECURSIVE Collapse(_)
Collapse(t) ==
    IF Len(t) = 0 THEN <<>>
    ELSE IF IsSpace(t[1])
         THEN IF Len(t) > 1 /\ IsSpace(t[2]) THEN Collapse(Tail(t))
              ELSE <<" ">> \o Collapse(Tail(t))
         ELSE <<t[1]>> \o Collapse(Tail(t))

\* str.strip()
RECURSIVE Strip(_)
Strip(t) ==
    IF Len(t) = 0 THEN t
    ELSE IF IsSpace(t[1]) THEN Strip(Tail(t))
    ELSE IF IsSpace(t[Len(t)]) THEN Strip(SubSeq(t, 1, Len(t) - 1))
    ELSE t

\* str.capitalize() on the letters of the model's texts.
Capitalize(t) ==
    IF Len(t) = 0 THEN t
    ELSE <<IF t[1] = "t" THEN "T" ELSE t[1]>> \o Tail(t)

\* The text the speech model recognizes in a file: it names the part.
RecognizedText(p) == <<" ", "t">> \o DecimalOf(p.part) \o <<" ">>

\* clean_transcription(text, nlp), the text being one sentence.
clean_transcription(text) ==
    IF Len(text) = 0 THEN <<>> ELSE Capitalize(Strip(Collapse(text)))

\* ------------------------------------------------------ transcribe_audio_batch

Rec(start, text, duration) == [start |-> start, text |-> text, duration |-> duration]

\* A mutant of start_timestamp: the record starts at the accumulated time
\* after the chunk, not before it.
start_timestamp_after(acc, segment_duration) == acc + segment_duration

\* A mutant of start_timestamp: the record starts at the chunk's own
\* length, not at the time accumulated before it.
start_timestamp_of_chunk(acc, segment_duration) == segment_duration

\* start_timestamp = accumulated_time, taken before the update.
start_timestamp(acc, segment_duration) == acc

\* accumulated_time += segment_duration
advance(acc, segment_duration) == acc + segment_duration

\* The accumulated_time the retry is called with: the current value.
retry_accumulated_time(first, current) == current

ba_idle ==
    /\ audio_files = <<>> /\ acc_arg = 0 /\ accumulated_time = 0
    /\ transcriptions = <<>> /\ ba_src = <<>> /\ ba_i = 0
    /\ ba_ret = [exc |-> "pending", val |-> <<>>, acc |-> 0]

BatchReturnPc == IF caller = "process_audio_file" THEN "paf_after_batch" ELSE "batch_done"

\* A mutant of BatchMissing: a missing file ends the loop.
BatchMissingStops ==
    /\ pc = "batch_loop"
    /\ ba_i <= Len(audio_files)
    /\ ~Exists(audio_files[ba_i])
    /\ ba_i' = Len(audio_files) + 1
    /\ UNCHANGED <<pc, caller, fs_vars, env_vars, not_ba,
                   audio_files, acc_arg, accumulated_time, transcriptions, ba_src, ba_ret>>

\* os.path.exists(file_path) is false: continue with the next file.
BatchMissing ==
    /\ pc = "batch_loop"
    /\ ba_i <= Len(audio_files)
    /\ ~Exists(audio_files[ba_i])
    /\ ba_i' = ba_i + 1
    /\ UNCHANGED <<pc, caller, fs_vars, env_vars, not_ba,
                   audio_files, acc_arg, accumulated_time, transcriptions, ba_src, ba_ret>>

\* A mutant of BatchOom: the retry keeps the records made so far.
BatchOomKeepsRecords ==
    /\ pc = "batch_loop"
    /\ ba_i <= Len(audio_files)
    /\ Exists(audio_files[ba_i])
    /\ ModelOom(audio_files[ba_i])
    /\ accumulated_time' = retry_accumulated_time(acc_arg, accumulated_time)
    /\ ba_i' = 1
    /\ UNCHANGED <<pc, caller, fs_vars, not_ba, audio_files, acc_arg, ba_ret,
                   transcriptions, ba_src>>

\* model.transcribe raises CUDA out of memory: model.to("cpu"), and the
\* call returns what transcribe_audio_batch returns when called again on the
\* whole of audio_files: a new transcriptions list, the loop from the start.
BatchOom ==
    /\ pc = "batch_loop"
    /\ ba_i <= Len(audio_files)
    /\ Exists(audio_files[ba_i])
    /\ ModelOom(audio_files[ba_i])
    /\ accumulated_time' = retry_accumulated_time(acc_arg, accumulated_time)
    /\ transcriptions' = <<>>
    /\ ba_src' = <<>>
    /\ ba_i' = 1
    /\ UNCHANGED <<pc, caller, fs_vars, not_ba, audio_files, acc_arg, ba_ret>>

\* model.transcribe answers: a record is appended when the result has text
\* and segments; a result without text, without segments, or an exception
\* leaves transcriptions and accumulated_time as they are.
BatchTranscribe ==
    /\ pc = "batch_loop"
    /\ ba_i <= Len(audio_files)
    /\ Exists(audio_files[ba_i])
    /\ \E o \in Outcomes :
         /\ ModelAnswers(audio_files[ba_i], o)
         /\ IF o.kind = "ok"
            THEN LET start == start_timestamp(accumulated_time, o.d)
                     formatted == format_timestamp(Num(start))
                     cleaned == clean_transcription(RecognizedText(audio_files[ba_i]))
                 IN /\ accumulated_time' = advance(accumulated_time, o.d)
                    /\ IF formatted.exc = "none"
                       THEN /\ transcriptions' =
                                 Append(transcriptions, Rec(formatted.val, cleaned, o.d))
                            /\ ba_src' = Append(ba_src, ba_i)
                       ELSE UNCHANGED <<transcriptions, ba_src>>
            ELSE UNCHANGED <<accumulated_time, transcriptions, ba_src>>
    /\ ba_i' = ba_i + 1
    /\ UNCHANGED <<pc, caller, fs_vars, not_ba, audio_files, acc_arg, ba_ret>>

\* The loop is over: return transcriptions, accumulated_time.
BatchReturn ==
    /\ pc = "batch_loop"
    /\ ba_i > Len(audio_files)
    /\ ba_ret' = [exc |-> "none", val |-> transcriptions, acc |-> accumulated_time]
    /\ pc' = BatchReturnPc
    /\ UNCHANGED <<caller, fs_vars, env_vars, not_ba,
                   audio_files, acc_arg, accumulated_time, transcriptions, ba_src, ba_i>>

transcribe_audio_batch == BatchMissing \/ BatchOom \/ BatchTranscribe \/ BatchReturn

\* ------------------------------------------------------------ transcribe_audio

\* What transcribe_audio returns: rec is <<>> for None, or holds the record.
TAResult(rec, acc) == [exc |-> "none", rec |-> rec, acc |-> acc]

\* A mutant of TAMissing: the recognition call comes before the check that
\* the file exists.
TAMissingInvokes ==
    /\ pc = "ta_entry"
    /\ ~Exists(ta_file)
    /\ invoked' = Put(invoked, ta_file, Invocations(ta_file) + 1)
    /\ ta_ret' = TAResult(<<>>, ta_acc)
    /\ pc' = "ta_done"
    /\ UNCHANGED <<caller, fs_vars, device, ooms, outcome, oom_log, not_ta,
                   ta_file, ta_arg, ta_acc, fold_vars>>

\* A mutant of TAMissing: a missing file returns None with the time 0.
TAMissingResetsTime ==
    /\ pc = "ta_entry"
    /\ ~Exists(ta_file)
    /\ ta_ret' = TAResult(<<>>, 0)
    /\ pc' = "ta_done"
    /\ UNCHANGED <<caller, fs_vars, env_vars, not_ta, ta_file, ta_arg, ta_acc,
                   fold_vars>>

\* os.path.exists(file_path) is false: return None, accumulated_time.
TAMissing ==
    /\ pc = "ta_entry"
    /\ ~Exists(ta_file)
    /\ ta_ret' = TAResult(<<>>, ta_acc)
    /\ pc' = "ta_done"
    /\ UNCHANGED <<caller, fs_vars, env_vars, not_ta, ta_file, ta_arg, ta_acc,
                   fold_vars>>

\* model.transcribe raises CUDA out of memory: model.to("cpu"), and the
\* call returns what transcribe_audio returns when called again with the
\* same file_path and accumulated_time.
TAOom ==
    /\ pc = "ta_entry"
    /\ Exists(ta_file)
    /\ ModelOom(ta_file)
    /\ UNCHANGED <<pc, caller, fs_vars, not_ta, ta_file, ta_arg, ta_acc, ta_ret,
                   fold_vars>>

\* model.transcribe answers.  With text and segments the time advances and
\* the record is returned (an exception from format_timestamp is caught and
\* leads to the final return, after the update); otherwise None is returned
\* with accumulated_time.
TATranscribe ==
    /\ pc = "ta_entry"
    /\ Exists(ta_file)
    /\ \E o \in Outcomes :
         /\ ModelAnswers(ta_file, o)
         /\ IF o.kind = "ok"
            THEN LET start == start_timestamp(ta_acc, o.d)
                     formatted == format_timestamp(Num(start))
                     cleaned == clean_transcription(RecognizedText(ta_file))
                 IN /\ ta_acc' = advance(ta_acc, o.d)
                    /\ ta_ret' =
                         IF formatted.exc = "none"
                         THEN TAResult(<<Rec(formatted.val, cleaned, o.d)>>, ta_acc')
                         ELSE TAResult(<<>>, ta_acc')
            ELSE /\ ta_ret' = TAResult(<<>>, ta_acc)
                 /\ UNCHANGED ta_acc
    /\ pc' = "ta_done"
    /\ UNCHANGED <<caller, fs_vars, not_ta, ta_file, ta_arg, fold_vars>>

transcribe_audio == TAMissing \/ TAOom \/ TATranscribe

\* transcribe_audio folded over audio_files by a caller: the next file is
\* passed with the accumulated time the call before returned.
FoldCall ==
    /\ pc = "fold_next"
    /\ fold_i <= Len(audio_files)
    /\ ta_file' = audio_files[fold_i]
    /\ ta_arg' = fold_acc
    /\ ta_acc' = fold_acc
    /\ ta_ret' = [exc |-> "pending", rec |-> <<>>, acc |-> 0]
    /\ pc' = "ta_entry"
    /\ UNCHANGED <<caller, fs_vars, env_vars, not_ta, fold_vars>>

\* The call returned: a record that is not None is collected, the time
\* returned is kept for the next call.
FoldCollect ==
    /\ pc = "ta_done"
    /\ caller = "fold"
    /\ fold_recs' = fold_recs \o ta_ret.rec
    /\ fold_acc' = ta_ret.acc
    /\ fold_i' = fold_i + 1
    /\ pc' = "fold_next"
    /\ UNCHANGED <<caller, fs_vars, env_vars, not_ta, ta_file, ta_arg, ta_acc, ta_ret>>

\* The list is over; the same list is then given to transcribe_audio_batch
\* with the accumulated time the fold began with.
FoldEnd ==
    /\ pc = "fold_next"
    /\ fold_i > Len(audio_files)
    /\ pc' = "batch_loop"
    /\ UNCHANGED <<caller, fs_vars, env_vars, not_ta, ta_vars>>

fold_transcribe_audio == FoldCall \/ FoldCollect \/ FoldEnd

\* ----------------------------------------------------------- save_transcription

\* The most elements of the list given to save_transcription.
MaxRecords == 3

\* The most elements of a list nested in it.
MaxNested == 2

\* An element of the list given to save_transcription:
\*   a dict, with or without the key "start", its "text" a string
\*   (text_kind "str"), absent ("absent") or not a string ("none");
\*   a list of elements;
\*   anything else.
Dict(has_start, start, text_kind, text) ==
    [shape |-> "dict", has_start |-> has_start, start |-> start,
     text_kind |-> text_kind, text |-> text, items |-> <<>>]
Nested(items) ==
    [shape |-> "list", has_start |-> FALSE, start |-> <<>>,
     text_kind |-> "absent", text |-> <<>>, items |-> items]
Other ==
    [shape |-> "other", has_start |-> FALSE, start |-> <<>>,
     text_kind |-> "absent", text |-> <<>>, items |-> <<>>]

\* A record of transcribe_audio_batch as save_transcription sees it.
AsDict(rec) == Dict(TRUE, rec.start, "str", rec.text)

\* f"{start_time} {text}\n" with start_time = d.get("start", "[00:00:00]")
\* and text = d.get("text", "").strip().
line_of(d) ==
    (IF d.has_start THEN d.start ELSE DefaultTimestamp)
    \o <<" ">> \o Strip(IF d.text_kind = "str" THEN d.text ELSE <<>>) \o <<"\n">>

\* d.get("text", "").strip() raises AttributeError: the text is no string.
strip_raises(d) == d.shape = "dict" /\ d.text_kind = "none"

\* The place of the first dict of a nested list whose text is no string,
\* or 0.
first_raising(items) ==
    IF \E k \in 1..Len(items) : strip_raises(items[k])
    THEN CHOOSE k \in 1..Len(items) :
            /\ strip_raises(items[k])
            /\ \A j \in 1..(k - 1) : ~strip_raises(items[j])
    ELSE 0

\* Writing the element raises.
element_raises(e) ==
    IF e.shape = "list" THEN first_raising(e.items) > 0 ELSE strip_raises(e)

\* The lines written for the dicts of a nested list, in its order.
RECURSIVE nested_lines(_)
nested_lines(items) ==
    IF Len(items) = 0 THEN <<>>
    ELSE (IF items[1].shape = "dict" THEN <<line_of(items[1])>> ELSE <<>>)
         \o nested_lines(Tail(items))

\* The lines written for one element of the list; when writing it raises,
\* the lines written before it does.
lines_of(e) ==
    CASE e.shape = "list" ->
            IF first_raising(e.items) > 0
            THEN nested_lines(SubSeq(e.items, 1, first_raising(e.items) - 1))
            ELSE nested_lines(e.items)
      [] e.shape = "dict" -> IF strip_raises(e) THEN <<>> ELSE <<line_of(e)>>
      [] OTHER -> <<>>

sv_idle ==
    /\ sv_input = <<>> /\ sv_i = 0 /\ sv_ret = "pending"
    /\ transcript = [exists |-> FALSE, lines |-> <<>>]

SaveReturnPc == IF caller = "process_audio_file" THEN "paf_after_save" ELSE "save_done"

\* os.makedirs(dirname, exist_ok=True) and open(output_txt, "w"): the file
\* exists and is empty.
SaveOpen ==
    /\ pc = "save_entry"
    /\ dirs' = dirs \cup {"transcriptions"}
    /\ transcript' = [exists |-> TRUE, lines |-> <<>>]
    /\ sv_i' = 1
    /\ pc' = "save_loop"
    /\ UNCHANGED <<caller, files, not_sv, sv_input, sv_ret>>

\* os.makedirs or open raises: the exception is caught and printed, nothing
\* is written.
SaveOpenFails ==
    /\ pc = "save_entry"
    /\ sv_ret' = "failed"
    /\ pc' = SaveReturnPc
    /\ UNCHANGED <<caller, fs_vars, not_sv, sv_input, sv_i, transcript>>

\* A mutant of SaveElement: an element that is neither a dict nor a list
\* ends the writing.
SaveElementStopsAtOther ==
    /\ pc = "save_loop"
    /\ sv_i <= Len(sv_input)
    /\ ~element_raises(sv_input[sv_i])
    /\ transcript' = [transcript EXCEPT !.lines = @ \o lines_of(sv_input[sv_i])]
    /\ sv_i' = IF sv_input[sv_i].shape = "other" THEN Len(sv_input) + 1 ELSE sv_i + 1
    /\ UNCHANGED <<pc, caller, fs_vars, not_sv, sv_input, sv_ret>>

\* One iteration of the loop over transcriptions.
SaveElement ==
    /\ pc = "save_loop"
    /\ sv_i <= Len(sv_input)
    /\ ~element_raises(sv_input[sv_i])
    /\ transcript' = [transcript EXCEPT !.lines = @ \o lines_of(sv_input[sv_i])]
    /\ sv_i' = sv_i + 1
    /\ UNCHANGED <<pc, caller, fs_vars, not_sv, sv_input, sv_ret>>

\* Writing an element raises: the file is closed with the lines written so
\* far, the exception is caught and printed.
SaveElementRaises ==
    /\ pc = "save_loop"
    /\ sv_i <= Len(sv_input)
    /\ element_raises(sv_input[sv_i])
    /\ transcript' = [transcript EXCEPT !.lines = @ \o lines_of(sv_input[sv_i])]
    /\ sv_ret' = "failed"
    /\ pc' = SaveReturnPc
    /\ UNCHANGED <<caller, fs_vars, not_sv, sv_input, sv_i>>

\* The loop is over: the file is closed.
SaveReturn ==
    /\ pc = "save_loop"
    /\ sv_i > Len(sv_input)
    /\ sv_ret' = "saved"
    /\ pc' = SaveReturnPc
    /\ UNCHANGED <<caller, fs_vars, not_sv, sv_input, sv_i, transcript>>

save_transcription ==
    SaveOpen \/ SaveOpenFails \/ SaveElement \/ SaveElementRaises \/ SaveReturn

\* -------------------------------------------------------------- normalize_audio

na_idle ==
    /\ na_input = NoPath /\ na_output = NoPath /\ na_denoise = FALSE
    /\ norm_failed = {}

\* output_path.replace(".wav", "_denoised.wav")
denoised_path(output_path) ==
    Path(output_path.dir, output_path.stem, output_path.part, "denoised")

\* What a failed ffmpeg run may leave at the path it was writing: the file as
\* it was, or an undecodable piece of output.
AfterFailedWrite(p) ==
    {files, WriteFile(files, p, Audio(0, 0, "garbled"))}

NormReturnPc == IF caller = "process_audio_file" THEN "paf_split" ELSE "norm_done"

\* Step 1, ffmpeg exits 0: output_path holds the resampled, loudness-
\* normalized audio.
NormStep1 ==
    /\ pc = "norm_step1"
    /\ Decodable(na_input)
    /\ files' = WriteFile(files, na_output,
                          Audio(files[na_input].lo, files[na_input].hi, "normalized"))
    /\ pc' = IF na_denoise THEN "norm_step2" ELSE NormReturnPc
    /\ UNCHANGED <<caller, dirs, not_na, na_vars>>

\* Step 1, ffmpeg exits non-zero: CalledProcessError is caught and printed,
\* and normalize_audio returns None.
NormStep1Fails ==
    /\ pc = "norm_step1"
    /\ files' \in AfterFailedWrite(na_output)
    /\ norm_failed' = norm_failed \cup {1}
    /\ pc' = NormReturnPc
    /\ UNCHANGED <<caller, dirs, not_na, na_input, na_output, na_denoise>>

\* Step 2, ffmpeg exits 0: the filtered audio is written beside output_path
\* and os.replace puts it in its place.
NormStep2 ==
    /\ pc = "norm_step2"
    /\ files' = RemoveFile(
                  WriteFile(files, na_output,
                            Audio(files[na_output].lo, files[na_output].hi, "denoised")),
                  denoised_path(na_output))
    /\ pc' = NormReturnPc
    /\ UNCHANGED <<caller, dirs, not_na, na_vars>>

\* A mutant of NormStep2Fails: os.replace is done although ffmpeg failed,
\* with whatever it left.
NormStep2FailsReplaces ==
    /\ pc = "norm_step2"
    /\ files' = WriteFile(files, na_output, Audio(0, 0, "garbled"))
    /\ norm_failed' = norm_failed \cup {2}
    /\ pc' = NormReturnPc
    /\ UNCHANGED <<caller, dirs, not_na, na_input, na_output, na_denoise>>

\* Step 2, ffmpeg exits non-zero: CalledProcessError is caught and printed,
\* os.replace is not reached, and normalize_audio returns None.
NormStep2Fails ==
    /\ pc = "norm_step2"
    /\ files' \in AfterFailedWrite(denoised_path(na_output))
    /\ norm_failed' = norm_failed \cup {2}
    /\ pc' = NormReturnPc
    /\ UNCHANGED <<caller, dirs, not_na, na_input, na_output, na_denoise>>

normalize_audio == NormStep1 \/ NormStep1Fails \/ NormStep2 \/ NormStep2Fails

\* ----------------------------------------------------------- process_audio_file

paf_idle ==
    /\ use_normalization = FALSE /\ paf_input = NoPath /\ paf_output = NoPath
    /\ split_files = <<>> /\ paf_k = 0 /\ gpu_released = FALSE
    /\ paf_ret = "pending"

\* os.path.join(processed_dir, file with .m4a or .mp3 replaced by .wav)
processed_path(input_path) == Path("processed", input_path.stem, 0, "wav")

\* Step 1 with use_normalization: call normalize_audio(input_path,
\* output_path, noise_reduction=True).
PafNormalize ==
    /\ pc = "paf_entry"
    /\ use_normalization
    /\ paf_output' = processed_path(paf_input)
    /\ na_input' = paf_input
    /\ na_output' = processed_path(paf_input)
    /\ na_denoise' = TRUE
    /\ pc' = "norm_step1"
    /\ UNCHANGED <<caller, fs_vars, ts_vars, sp_vars, env_vars, ba_vars, ta_vars, sv_vars,
                   norm_failed, dl_vars, use_normalization, paf_input, split_files, paf_k,
                   gpu_released, paf_ret>>

\* Step 1 without it: output_path = input_path.
PafSkipNormalize ==
    /\ pc = "paf_entry"
    /\ ~use_normalization
    /\ paf_output' = paf_input
    /\ pc' = "paf_split"
    /\ UNCHANGED <<caller, fs_vars, ts_vars, sp_vars, env_vars, ba_vars, ta_vars, sv_vars,
                   na_vars, dl_vars, use_normalization, paf_input, split_files, paf_k,
                   gpu_released, paf_ret>>

\* Step 2: split_files = split_audio(output_path, split_dir, max_duration=300).
PafCallSplit ==
    /\ pc = "paf_split"
    /\ sp_input' = paf_output
    /\ sp_outdir' = "split"
    /\ sp_max' = 300
    /\ sp_i' = 0 /\ sp_paths' = <<>> /\ sp_ret' = NoResult
    /\ pc' = "split_entry"
    /\ UNCHANGED <<caller, fs_vars, ts_vars, env_vars, ba_vars, ta_vars, sv_vars,
                   na_vars, paf_vars, dl_vars>>

\* split_audio raised: the except clause of process_audio_file prints the
\* error, and the function returns.
PafSplitRaised ==
    /\ pc = "paf_after_split"
    /\ sp_ret.exc # "none"
    /\ paf_ret' = "caught"
    /\ pc' = "paf_done"
    /\ UNCHANGED <<caller, fs_vars, ts_vars, sp_vars, env_vars, ba_vars, ta_vars, sv_vars,
                   na_vars, dl_vars, use_normalization, paf_input, paf_output, split_files, paf_k,
                   gpu_released>>

\* Step 3: transcriptions, _ = transcribe_audio_batch(split_files, ...), with
\* accumulated_time at its default 0.
PafCallBatch ==
    /\ pc = "paf_after_split"
    /\ sp_ret.exc = "none"
    /\ split_files' = sp_ret.val
    /\ audio_files' = sp_ret.val
    /\ acc_arg' = 0 /\ accumulated_time' = 0
    /\ transcriptions' = <<>> /\ ba_src' = <<>> /\ ba_i' = 1
    /\ pc' = "batch_loop"
    /\ UNCHANGED <<caller, fs_vars, ts_vars, sp_vars, env_vars, ta_vars, sv_vars, na_vars,
                   dl_vars, ba_ret, use_normalization, paf_input, paf_output, paf_k,
                   gpu_released, paf_ret>>

\* Step 4: the transcriptions are a list: save_transcription(transcriptions,
\* txt_output).
PafCallSave ==
    /\ pc = "paf_after_batch"
    /\ sv_input' = [k \in 1..Len(ba_ret.val) |-> AsDict(ba_ret.val[k])]
    /\ sv_i' = 0 /\ sv_ret' = "pending"
    /\ pc' = "save_entry"
    /\ UNCHANGED <<caller, fs_vars, ts_vars, sp_vars, env_vars, ba_vars, ta_vars, na_vars,
                   dl_vars, transcript, paf_vars>>

\* Step 5 begins: the loop over split_files.
PafBeginRemove ==
    /\ pc = "paf_after_save"
    /\ paf_k' = 1
    /\ pc' = "paf_remove"
    /\ UNCHANGED <<caller, fs_vars, ts_vars, sp_vars, env_vars, ba_vars, ta_vars, sv_vars,
                   na_vars, dl_vars, use_normalization, paf_input, paf_output, split_files,
                   gpu_released, paf_ret>>

\* os.remove(split_file)
PafRemove ==
    /\ pc = "paf_remove"
    /\ paf_k <= Len(split_files)
    /\ Exists(split_files[paf_k])
    /\ files' = RemoveFile(files, split_files[paf_k])
    /\ paf_k' = paf_k + 1
    /\ UNCHANGED <<pc, caller, dirs, ts_vars, sp_vars, env_vars, ba_vars, ta_vars, sv_vars,
                   na_vars, dl_vars, use_normalization, paf_input, paf_output, split_files,
                   gpu_released, paf_ret>>

\* os.remove(split_file) raises, the file being gone: the except clause
\* prints the error, and the function returns.
PafRemoveRaises ==
    /\ pc = "paf_remove"
    /\ paf_k <= Len(split_files)
    /\ ~Exists(split_files[paf_k])
    /\ paf_ret' = "caught"
    /\ pc' = "paf_done"
    /\ UNCHANGED <<caller, fs_vars, ts_vars, sp_vars, env_vars, ba_vars, ta_vars, sv_vars,
                   na_vars, dl_vars, use_normalization, paf_input, paf_output, split_files, paf_k,
                   gpu_released>>

\* Step 6: torch.cuda.empty_cache() and gc.collect(), then the function
\* returns.
PafFree ==
    /\ pc = "paf_remove"
    /\ paf_k > Len(split_files)
    /\ gpu_released' = TRUE
    /\ paf_ret' = "returned"
    /\ pc' = "paf_done"
    /\ UNCHANGED <<caller, fs_vars, ts_vars, sp_vars, env_vars, ba_vars, ta_vars, sv_vars,
                   na_vars, dl_vars, use_normalization, paf_input, paf_output, split_files, paf_k>>

\* Something outside the program removes one of the chunk files while they
\* are transcribed or removed: at most one, and never the source audio.
ChunkVanishes ==
    /\ pc \in {"batch_loop", "paf_remove"}
    /\ caller = "process_audio_file"
    /\ \A k \in 1..Len(audio_files) :
         (pc = "batch_loop" \/ k >= paf_k) => Exists(audio_files[k])
    /\ \E k \in 1..Len(audio_files) :
         /\ audio_files[k].part > 0
         /\ pc = "paf_remove" => k >= paf_k
         /\ files' = RemoveFile(files, audio_files[k])
    /\ UNCHANGED <<pc, caller, dirs, ts_vars, sp_vars, env_vars, ba_vars, ta_vars, sv_vars,
                   na_vars, paf_vars, dl_vars>>

process_audio_file ==
    \/ PafNormalize \/ PafSkipNormalize \/ PafCallSplit \/ PafSplitRaised
    \/ PafCallBatch \/ PafCallSave \/ PafBeginRemove \/ PafRemove
    \/ PafRemoveRaises \/ PafFree

\* -------------------------------------------------------- download_youtube_audio

\* The most calls of download_youtube_audio in one run.
MaxCalls == 3

\* The most batch runs.
MaxBatches == 2

Urls == {"u1", "u2"}

\* The sets a call may be given: the function's default argument, or the
\* set the caller made for the batch.
SetNames == {"default"} \cup {"batch1", "batch2", "batch3"}

BatchSet(b) == CASE b = 1 -> "batch1" [] b = 2 -> "batch2" [] OTHER -> "batch3"

NoSuccess == [k \in SetNames \X Urls |-> 0]

dl_idle ==
    /\ processed = [k \in SetNames |-> {}]
    /\ dl_files = {}
    /\ dl_n = 0 /\ dl_batch = 1
    /\ dl_url = "" /\ dl_set = "" /\ dl_ret = "pending"
    /\ meta_calls = 0 /\ run_calls = 0
    /\ succ = NoSuccess
    /\ dl_acquired = {}

\* get_video_metadata(video_url): the id of the video, or a random one
\* when the metadata tool fails.
video_id(url, meta_ok) == IF meta_ok THEN url ELSE "random"

\* index when None: one more than the video_* files in output_dir.
next_index == Cardinality(dl_files) + 1

\* f"video_{index:02d}_{video_id}{time_suffix}.wav"
output_filename(index, id) == [index |-> index, id |-> id]

\* A mutant of after_download: the URL is added whether or not the
\* download succeeded.
after_download_always_adds(urls, url, ok) == urls \cup {url}

\* processed_urls after the download tool has run: the URL is added after
\* a successful run only.
after_download(urls, url, ok) == IF ok THEN urls \cup {url} ELSE urls

\* video_url in processed_urls
is_duplicate(url, urls) == url \in urls

\* What running the download tool may do: exit with 0, exit with another
\* status (CalledProcessError, caught), or not start at all (the exception
\* leaves the function).
RunOutcomes == {"ok", "failed", "missing"}

\* One call download_youtube_audio(url, processed_urls=set_name or the
\* default, index=None): skipped when the URL is in the set; otherwise the
\* metadata tool and the download tool run, and a successful download
\* creates the file, adds the URL to the set and returns the path.
DownloadCall ==
    /\ pc = "dl_idle"
    /\ dl_n < MaxCalls
    /\ \E url \in Urls, set_name \in {"default", BatchSet(dl_batch)},
          meta_ok \in BOOLEAN, run \in RunOutcomes :
         LET ok == run = "ok" IN
         /\ run = "missing" => ~meta_ok
         /\ dl_url' = url
         /\ dl_set' = set_name
         /\ IF is_duplicate(url, processed[set_name])
            THEN /\ dl_ret' = "None"
                 /\ UNCHANGED <<processed, dl_files, meta_calls, run_calls, succ,
                                dl_acquired>>
            ELSE /\ meta_calls' = meta_calls + 1
                 /\ run_calls' = run_calls + 1
                 /\ processed' = [processed EXCEPT
                                    ![set_name] = after_download(@, url, ok)]
                 /\ dl_files' = IF ok
                                THEN dl_files \cup
                                     {output_filename(next_index, video_id(url, meta_ok))}
                                ELSE dl_files
                 /\ succ' = IF ok THEN [succ EXCEPT ![<<set_name, url>>] = @ + 1]
                            ELSE succ
                 /\ dl_acquired' = IF ok THEN dl_acquired \cup {url} ELSE dl_acquired
                 /\ dl_ret' = CASE run = "ok" -> "path"
                                [] run = "failed" -> "None"
                                [] OTHER -> "raised"
    /\ dl_n' = dl_n + 1
    /\ UNCHANGED <<pc, caller, fs_vars, ts_vars, sp_vars, env_vars, ba_vars, ta_vars,
                   sv_vars, na_vars, paf_vars, dl_batch>>

\* The batch run ends and another begins, in the same process: its caller
\* makes a new set for it.
DownloadNewBatch ==
    /\ pc = "dl_idle"
    /\ dl_batch < MaxBatches
    /\ dl_n > 0
    /\ dl_batch' = dl_batch + 1
    /\ dl_acquired' = {}
    /\ UNCHANGED <<pc, caller, fs_vars, ts_vars, sp_vars, env_vars, ba_vars, ta_vars,
                   sv_vars, na_vars, paf_vars, processed, dl_files, dl_n, dl_url,
                   dl_set, dl_ret, meta_calls, run_calls, succ>>

download_youtube_audio == DownloadCall \/ DownloadNewBatch

\* ------------------------------------------------------------ specifications

\* The longest audio, in milliseconds, that split_audio is given at every
\* millisecond; beyond it only the lengths of SplitLongLens.
MaxAudioMs == 3100

SplitLongLens == {299999, 300000, 300001, 599999, 600000, 600001, 700000}

SplitMaxDurations == {1, 2, 300}

RawPath == Path("raw", "a", 0, "wav")

Init_Timestamp ==
    /\ pc = "fmt_call" /\ caller = "test"
    /\ ts_arg \in TimestampInputs /\ ts_ret = NoResult
    /\ files = <<>> /\ dirs = {}
    /\ sp_idle /\ env_idle /\ ba_idle /\ ta_idle /\ sv_idle /\ na_idle /\ paf_idle /\ dl_idle

Next_Timestamp == FormatTimestampCall

SpecTimestamp == Init_Timestamp /\ [][Next_Timestamp]_vars

Init_Split ==
    /\ pc = "split_entry" /\ caller = "test"
    /\ ts_idle
    /\ sp_max \in SplitMaxDurations
    /\ \/ \E len \in IF sp_max = 300 THEN SplitLongLens \cup {0, 1, 120000}
                                     ELSE 0..MaxAudioMs :
             files = (RawPath :> Audio(0, len, "raw"))
       \/ files = (RawPath :> Audio(0, 0, "garbled"))
       \/ files = <<>>
    /\ dirs \in {{"raw"}, {"raw", "split"}}
    /\ sp_input = RawPath /\ sp_outdir = "split"
    /\ sp_i = 0 /\ sp_paths = <<>> /\ sp_ret = NoResult
    /\ env_idle /\ ba_idle /\ ta_idle /\ sv_idle /\ na_idle /\ paf_idle /\ dl_idle

Next_Split == split_audio

SpecSplit == Init_Split /\ [][Next_Split]_vars

\* The chunk files of a.wav in the split directory.
ChunkPath(k) == Path("split", "a", k, "wav")

\* transcribe_audio_batch on 1..MaxChunks chunk paths, any of the files
\* missing, starting from accumulated_time 0 or from five minutes.
Init_Batch ==
    /\ pc = "batch_loop" /\ caller = "test"
    /\ ts_idle /\ sp_idle /\ env_idle /\ ta_idle /\ sv_idle /\ na_idle /\ paf_idle /\ dl_idle
    /\ \E n \in 1..MaxChunks :
         /\ audio_files = [k \in 1..n |-> ChunkPath(k)]
         /\ \E present \in SUBSET (1..n) :
              files = [p \in {ChunkPath(k) : k \in present} |-> Audio(0, 1, "raw")]
    /\ dirs = {"split"}
    /\ acc_arg \in {0, Secs(300)}
    /\ accumulated_time = acc_arg
    /\ transcriptions = <<>> /\ ba_src = <<>> /\ ba_i = 1
    /\ ba_ret = [exc |-> "pending", val |-> <<>>, acc |-> 0]

Next_Batch == transcribe_audio_batch

SpecBatch == Init_Batch /\ [][Next_Batch]_vars

\* transcribe_audio folded over a list of chunks, any of them present or
\* missing, then transcribe_audio_batch on the same list from the same
\* accumulated time, no recognition call running out of memory.
Init_Fold ==
    /\ pc = "fold_next" /\ caller = "fold"
    /\ ts_idle /\ sp_idle /\ env_idle /\ sv_idle /\ na_idle /\ paf_idle /\ dl_idle
    /\ \E n \in 1..MaxChunks :
         /\ audio_files = [k \in 1..n |-> ChunkPath(k)]
         /\ \E present \in SUBSET (1..n) :
              files = [p \in {ChunkPath(k) : k \in present} |-> Audio(0, 1, "raw")]
    /\ dirs = {"split"}
    /\ acc_arg \in {0, Secs(300)}
    /\ accumulated_time = acc_arg
    /\ transcriptions = <<>> /\ ba_src = <<>> /\ ba_i = 1
    /\ ba_ret = [exc |-> "pending", val |-> <<>>, acc |-> 0]
    /\ ta_file = NoPath /\ ta_arg = 0 /\ ta_acc = 0
    /\ ta_ret = [exc |-> "pending", rec |-> <<>>, acc |-> 0]
    /\ fold_i = 1 /\ fold_recs = <<>> /\ fold_acc = acc_arg

Next_Fold ==
    \/ fold_transcribe_audio
    \/ TAMissing
    \/ TATranscribe
    \/ BatchMissing
    \/ BatchTranscribe
    \/ BatchReturn

SpecFold == Init_Fold /\ [][Next_Fold]_vars

\* transcribe_audio on one chunk, present or missing, from several
\* accumulated times.
Init_Transcribe ==
    /\ pc = "ta_entry" /\ caller = "test"
    /\ ts_idle /\ sp_idle /\ env_idle /\ ba_idle /\ sv_idle /\ na_idle /\ paf_idle /\ dl_idle
    /\ files \in {<<>>, (ChunkPath(1) :> Audio(0, 1, "raw"))}
    /\ dirs = {"split"}
    /\ ta_file = ChunkPath(1)
    /\ ta_arg \in {0, 1, Secs(99), Secs(300), Secs(3725)}
    /\ ta_acc = ta_arg
    /\ ta_ret = [exc |-> "pending", rec |-> <<>>, acc |-> 0]
    /\ fold_i = 0 /\ fold_recs = <<>> /\ fold_acc = 0

Next_Transcribe == transcribe_audio

SpecTranscribe == Init_Transcribe /\ [][Next_Transcribe]_vars

\* The dicts, the nested lists and the other elements save_transcription
\* is given here.
RecordA == Dict(TRUE, DefaultTimestamp, "str", <<"a">>)
RecordB == Dict(TRUE, <<"[", "0", "0", ":", "0", "0", ":", "0", "5", "]">>, "str", <<"b">>)
RecordC == Dict(FALSE, <<>>, "absent", <<>>)
RecordD == Dict(FALSE, <<>>, "str", <<" ", "d", " ">>)
RecordN == Dict(TRUE, DefaultTimestamp, "none", <<>>)

SeqsUpTo(S, n) == UNION {[1..k -> S] : k \in 0..n}

SaveElements ==
    {RecordA, RecordB, RecordC, RecordD, RecordN, Other}
    \cup {Nested(items) : items \in SeqsUpTo({RecordD, Other}, MaxNested)}

Init_Save ==
    /\ pc = "save_entry" /\ caller = "test"
    /\ ts_idle /\ sp_idle /\ env_idle /\ ba_idle /\ ta_idle /\ na_idle /\ paf_idle /\ dl_idle
    /\ files = <<>> /\ dirs = {}
    /\ sv_input \in SeqsUpTo(SaveElements, MaxRecords)
    /\ sv_i = 0 /\ sv_ret = "pending"
    /\ transcript = [exists |-> FALSE, lines |-> <<>>]

Next_Save == save_transcription

SpecSave == Init_Save /\ [][Next_Save]_vars

\* The lengths in milliseconds of the raw audio process_audio_file is given:
\* two minutes, exactly five minutes, seven and a half minutes.
FileLens == {120000, 300000, 450000}

\* process_audio_file on a.wav, raw or to be normalized, the raw file
\* audio of one of FileLens or not audio at all, the processed directory
\* empty.
Init_File ==
    /\ pc = "paf_entry" /\ caller = "process_audio_file"
    /\ ts_idle /\ sp_idle /\ env_idle /\ ba_idle /\ ta_idle /\ sv_idle /\ na_idle
    /\ dl_idle
    /\ use_normalization \in BOOLEAN
    /\ paf_input = RawPath /\ paf_output = NoPath
    /\ split_files = <<>> /\ paf_k = 0 /\ gpu_released = FALSE /\ paf_ret = "pending"
    /\ \E raw \in {Audio(0, len, "raw") : len \in FileLens} \cup {Audio(0, 0, "garbled")} :
         files = (RawPath :> raw)
    /\ dirs = {"raw", "processed"}

\* The records process_audio_file saves come from transcribe_audio_batch and
\* their texts are strings: SaveElementRaises has no part in it.
Next_File ==
    \/ process_audio_file \/ normalize_audio \/ split_audio
    \/ transcribe_audio_batch
    \/ SaveOpen \/ SaveOpenFails \/ SaveElement \/ SaveReturn
    \/ ChunkVanishes

SpecFile == Init_File /\ [][Next_File]_vars

Init_Download ==
    /\ pc = "dl_idle" /\ caller = "test"
    /\ ts_idle /\ sp_idle /\ env_idle /\ ba_idle /\ ta_idle /\ sv_idle /\ na_idle
    /\ paf_idle /\ dl_idle
    /\ files = <<>> /\ dirs = {"raw"}

Next_Download == download_youtube_audio

SpecDownload == Init_Download /\ [][Next_Download]_vars

\* ------------------------------------------------------------------ claims

RECURSIVE SumSeq(_)
SumSeq(s) == IF Len(s) = 0 THEN 0 ELSE s[1] + SumSeq(Tail(s))

\* The length in milliseconds of the audio split_audio was given.
SplitInputLen == files[sp_input].hi - files[sp_input].lo

SplitWasLong ==
    /\ pc = "split_done" /\ sp_ret.exc = "none"
    /\ Exists(sp_input)
    /\ SplitInputLen > sp_max * 1000

\* C2: for an audio of d milliseconds, d longer than max_duration,
\* split_audio returns ceil(d / max_duration) paths, the k-th named part k
\* and holding [(k-1)*max_duration, min(k*max_duration, d)); the parts tile
\* [0, d) without gap or overlap, the last one ends at d, and their
\* durations sum to d.
C2_SplitTiles ==
    SplitWasLong =>
        LET M == sp_max * 1000
            d == SplitInputLen
            r == sp_ret.val
            n == Len(r)
        IN /\ (n - 1) * M < d /\ d <= n * M
           /\ \A k \in 1..n :
                /\ r[k] = Path(sp_outdir, sp_input.stem, k, "wav")
                /\ Exists(r[k])
                /\ files[r[k]].lo = (k - 1) * M
                /\ files[r[k]].hi = IF k * M <= d THEN k * M ELSE d
                /\ files[r[k]].lo < files[r[k]].hi
           /\ files[r[1]].lo = 0
           /\ \A k \in 1..(n - 1) : files[r[k]].hi = files[r[k + 1]].lo
           /\ files[r[n]].hi = d
           /\ SumSeq([k \in 1..n |-> files[r[k]].hi - files[r[k]].lo]) = d

\* C2's case: 700 s at max_duration 300 gives parts of 300 s, 300 s and 100 s.
C2_Witness ==
    /\ SplitWasLong
    /\ sp_max = 300 /\ SplitInputLen = 700000
    /\ Len(sp_ret.val) = 3
    /\ files[sp_ret.val[3]] = Audio(600000, 700000, "raw")

\* C3: a call of split_audio on an audio no longer than max_duration is one
\* step that returns [input_path] and leaves the files and the directories
\* on disk as they were.
C3_ShortIsUntouched ==
    [][(/\ pc = "split_entry"
        /\ Decodable(sp_input)
        /\ files[sp_input].hi - files[sp_input].lo <= sp_max * 1000)
       => (/\ pc' = "split_done"
           /\ sp_ret' = Returned(<<sp_input>>)
           /\ files' = files
           /\ dirs' = dirs)]_vars

\* C3's case: an audio of exactly max_duration was returned as it is, and
\* the output directory, absent before the call, is still absent.
C3_Witness ==
    /\ pc = "split_done"
    /\ sp_ret = Returned(<<sp_input>>)
    /\ files[sp_input].hi - files[sp_input].lo = sp_max * 1000
    /\ sp_outdir \notin dirs
    /\ DOMAIN files = {sp_input}

\* The recognized durations of the first k files of the batch, in order.
BatchDurations(k) == [j \in 1..k |-> outcome[audio_files[j]].d]

\* Every file of the batch exists and was recognized with text and segments.
BatchAllRecognized ==
    \A j \in 1..Len(audio_files) :
        /\ Exists(audio_files[j])
        /\ Known(audio_files[j])
        /\ outcome[audio_files[j]].kind = "ok"

\* C1: when every chunk of the list exists and is recognized without any
\* failure, a batch started at accumulated_time 0 returns one record per
\* chunk, in chunk order, the i-th starting at format_timestamp of the sum
\* of the durations before it, and returns the sum of all durations.
C1_StartsArePrefixSums ==
    (/\ pc = "batch_done" /\ acc_arg = 0 /\ ooms = 0 /\ BatchAllRecognized)
    => LET n == Len(audio_files) IN
       /\ Len(ba_ret.val) = n
       /\ ba_src = [i \in 1..n |-> i]
       /\ \A i \in 1..n :
            /\ ba_ret.val[i].start =
                 format_timestamp(Num(SumSeq(BatchDurations(i - 1)))).val
            /\ ba_ret.val[i].duration = outcome[audio_files[i]].d
       /\ ba_ret.acc = SumSeq(BatchDurations(n))

\* C1's case: durations 300 s, 298 s, 99 s give the starts [00:00:00],
\* [00:05:00], [00:09:58] and 697 s of accumulated time.
C1_Witness ==
    /\ pc = "batch_done" /\ acc_arg = 0 /\ ooms = 0 /\ BatchAllRecognized
    /\ Len(audio_files) = 3
    /\ BatchDurations(3) = <<Secs(300), Secs(298), Secs(99)>>
    /\ ba_ret.val[1].start = <<"[", "0", "0", ":", "0", "0", ":", "0", "0", "]">>
    /\ ba_ret.val[2].start = <<"[", "0", "0", ":", "0", "5", ":", "0", "0", "]">>
    /\ ba_ret.val[3].start = <<"[", "0", "0", ":", "0", "9", ":", "5", "8", "]">>
    /\ ba_ret.acc = Secs(697)

\* The batch is over, one recognition call ran out of memory, on the
\* accelerator, and every file exists and is recognized on the cpu.
BatchOneOom ==
    /\ pc = "batch_done"
    /\ ooms = 1 /\ Len(oom_log) = 1
    /\ BatchAllRecognized

\* C4: when exactly one chunk k runs out of accelerator memory and every
\* attempt on the cpu succeeds, the model is moved to the cpu, chunk k is
\* attempted once more, and the list returned holds one record per chunk,
\* chunk k included, in chunk order, none twice.
C4_OneRecordPerChunkAfterOom ==
    BatchOneOom =>
        LET n == Len(audio_files) IN
        /\ device = "cpu"
        /\ Invocations(oom_log[1]) = 2
        /\ Len(ba_ret.val) = n
        /\ ba_src = [i \in 1..n |-> i]
        /\ \A i \in 1..n :
             ba_ret.val[i].text = <<"T">> \o DecimalOf(audio_files[i].part)
        /\ \A i, j \in 1..n : i # j => ba_ret.val[i].text # ba_ret.val[j].text

\* C4's case: chunk 2 of 3 ran out of memory and was transcribed on the cpu.
C4_Witness ==
    /\ BatchOneOom
    /\ Len(audio_files) = 3
    /\ oom_log = <<audio_files[2]>>
    /\ Len(ba_ret.val) = 3

\* C5: one call of transcribe_audio invokes the speech model at most twice:
\* the first attempt and, after an out-of-memory failure, one retry on the
\* cpu, whatever that retry does.
C5_AtMostTwoInvocations ==
    pc \in {"ta_entry", "ta_done"} => Invocations(ta_file) <= 2

\* C6: when transcribe_audio returns no record the accumulated time it
\* returns is the one it was given, and when the file is missing the speech
\* model was never invoked.
C6_NoRecordKeepsTime ==
    pc = "ta_done" =>
        /\ ta_ret.rec = <<>> => ta_ret.acc = ta_arg
        /\ ~Exists(ta_file) => (ta_ret.rec = <<>> /\ invoked = <<>> /\ outcome = <<>>)

\* C6's case: a recognition call was made, on a retry after running out of
\* memory, produced no record, and the time came back as given.
C6_Witness ==
    /\ pc = "ta_done"
    /\ ta_ret.rec = <<>>
    /\ Exists(ta_file) /\ Known(ta_file)
    /\ outcome[ta_file] = NoSegs
    /\ ooms = 1
    /\ ta_arg = Secs(300) /\ ta_ret.acc = Secs(300)

\* The dicts among the elements of a list, in order.
RECURSIVE DictsOf(_)
DictsOf(items) ==
    IF Len(items) = 0 THEN <<>>
    ELSE (IF items[1].shape = "dict" THEN <<items[1]>> ELSE <<>>)
         \o DictsOf(Tail(items))

\* The records of the input: its dicts and the dicts of its nested lists,
\* each nested list's in its place.
RECURSIVE RecordsOf(_)
RecordsOf(input) ==
    IF Len(input) = 0 THEN <<>>
    ELSE (CASE input[1].shape = "dict" -> <<input[1]>>
            [] input[1].shape = "list" -> DictsOf(input[1].items)
            [] OTHER -> <<>>)
         \o RecordsOf(Tail(input))

\* Every record of the input has the {start, text} shape: its text, when it
\* has one, is a string.
RecordsHaveStringTexts ==
    \A i \in 1..Len(RecordsOf(sv_input)) : RecordsOf(sv_input)[i].text_kind # "none"

TimestampArgIsNumber == PyFloat(ts_arg).tag = "ok"

\* The timestamp t reads "[H:MM:SS]", H of two digits or more without
\* needless zeros, and H, MM, SS spell the numbers h, m, s.
ReadsAs(t, h, m, s) ==
    LET n == Len(t) IN
    /\ n >= 10
    /\ t[1] = "[" /\ t[n] = "]" /\ t[n - 3] = ":" /\ t[n - 6] = ":"
    /\ AllDigits(SubSeq(t, 2, n - 7))
    /\ AllDigits(SubSeq(t, n - 5, n - 4))
    /\ AllDigits(SubSeq(t, n - 2, n - 1))
    /\ n > 10 => t[2] # "0"
    /\ DigitsValue(SubSeq(t, 2, n - 7)) = h
    /\ DigitsValue(SubSeq(t, n - 5, n - 4)) = m
    /\ DigitsValue(SubSeq(t, n - 2, n - 1)) = s

\* C7: format_timestamp never raises; an argument that is not a number
\* gives "[00:00:00]"; a number s >= 0 gives "[HH:MM:SS]" with
\* HH = floor(s) div 3600, MM = (floor(s) mod 3600) div 60,
\* SS = floor(s) mod 60, each of two digits at least.
C7_NeverRaises ==
    pc = "fmt_done" =>
        /\ ts_ret.exc = "none"
        /\ ~TimestampArgIsNumber => ts_ret.val = DefaultTimestamp
        /\ (TimestampArgIsNumber /\ PyFloat(ts_arg).v >= 0) =>
              LET whole == PyFloat(ts_arg).v \div TicksPerSecond IN
              ReadsAs(ts_ret.val, whole \div 3600, (whole % 3600) \div 60, whole % 60)

\* C9: once an ffmpeg run of normalize_audio has exited non-zero inside
\* process_audio_file, the file is not segmented, no chunk of it is
\* transcribed and no transcript is written for it.
C9_NormalizationFailureStops ==
    norm_failed # {} =>
        /\ sp_ret.exc # "none"
        /\ \A p \in DOMAIN files : p.part = 0
        /\ invoked = <<>>
        /\ ~transcript.exists

\* Each set holds exactly the URLs downloaded successfully by the calls
\* that were given it, and none of them was downloaded twice.
SetsHoldSuccesses ==
    \A k \in SetNames, u \in Urls :
        /\ succ[<<k, u>>] <= 1
        /\ u \in processed[k] <=> succ[<<k, u>>] = 1

\* A call whose URL is in the set it is given returns None, runs neither
\* tool, and changes neither the sets nor the files.
DuplicateIsSkipped ==
    (dl_n' = dl_n + 1 /\ dl_url' \in processed[dl_set'])
    => /\ dl_ret' = "None"
       /\ meta_calls' = meta_calls /\ run_calls' = run_calls
       /\ processed' = processed /\ dl_files' = dl_files

\* A call whose download fails leaves every set as it was.
FailureAddsNothing ==
    (dl_n' = dl_n + 1 /\ dl_ret' # "path") => processed' = processed

\* C10: over the calls that share a set, each URL is downloaded
\* successfully at most once; a call whose URL is in its set returns None
\* and runs neither the metadata nor the download tool; and the set holds
\* exactly the URLs whose download succeeded, a failed download adding
\* nothing.
C10_DownloadedAtMostOnce ==
    /\ []SetsHoldSuccesses
    /\ [][DuplicateIsSkipped /\ FailureAddsNothing]_vars

\* C10's case: u1 was downloaded with the batch's set, a second call for u1
\* with that set was skipped, and a failed download of u2 happened before.
C10_Witness ==
    /\ dl_n = 3
    /\ dl_url = "u1" /\ dl_set = "batch1" /\ dl_ret = "None"
    /\ processed["batch1"] = {"u1"}
    /\ succ[<<"batch1", "u1">>] = 1
    /\ meta_calls = 2 /\ run_calls = 2
    /\ Cardinality(dl_files) = 1

\* What transcribe_audio_batch returns on the files from the k-th on, begun
\* at accumulated time acc, when no recognition call runs out of memory:
\* the files, the file system and the model's answers being those of the
\* state.
RECURSIVE NoOomRun(_, _)
NoOomRun(k, acc) ==
    IF k > Len(audio_files) THEN [recs |-> <<>>, acc |-> acc]
    ELSE LET p == audio_files[k] IN
         IF Exists(p) /\ Known(p) /\ outcome[p].kind = "ok"
         THEN LET d == outcome[p].d
                  rest == NoOomRun(k + 1, acc + d)
              IN [recs |-> <<Rec(format_timestamp(Num(acc)).val,
                                 clean_transcription(RecognizedText(p)), d)>>
                           \o rest.recs,
                  acc |-> rest.acc]
         ELSE NoOomRun(k + 1, acc)

\* C11: a batch that was retried after running out of memory returns the
\* records, start timestamps included, and the accumulated time of a run
\* over the same list without that failure: the retry begins at the
\* accumulated time the batch was called with.
C11_RetryResetsTime ==
    (pc = "batch_done" /\ ooms >= 1) =>
        /\ ba_ret.val = NoOomRun(1, acc_arg).recs
        /\ ba_ret.acc = NoOomRun(1, acc_arg).acc

\* The sum of the duration fields of a list of records.
RECURSIVE SumDurations(_)
SumDurations(recs) ==
    IF Len(recs) = 0 THEN 0 ELSE recs[1].duration + SumDurations(Tail(recs))

\* The accumulated time never decreases in a step.
TimeNeverDecreases == accumulated_time' >= accumulated_time

\* A returned batch advanced the time by the durations of its records.
ReturnedTimeIsSumOfDurations ==
    pc = "batch_done" => ba_ret.acc - acc_arg = SumDurations(ba_ret.val)

\* C12: in every call of transcribe_audio_batch, whatever the chunks do
\* (recognized, missing, no text, no segments, another failure, out of
\* memory and retried), the accumulated time never decreases, and the time
\* returned less the time given is the sum of the durations of the records
\* returned.
C12_TimeIsSumOfDurations ==
    /\ [][TimeNeverDecreases]_vars
    /\ []ReturnedTimeIsSumOfDurations

\* C13: for every list of chunks and every answer of each (recognized with
\* a duration, missing, no text, no segments, another failure), none
\* running out of memory, transcribe_audio_batch returns the records and
\* the accumulated time that come of calling transcribe_audio on the chunks
\* in order, each call given the time the one before returned, the records
\* that are not None collected.
C13_BatchIsFold ==
    (pc = "batch_done" /\ caller = "fold") =>
        /\ ba_ret.val = fold_recs
        /\ ba_ret.acc = fold_acc

\* C13's case: three chunks from 300 s, the first missing, the second
\* recognized, the third without segments: one record, at [00:05:00].
C13_Witness ==
    /\ pc = "batch_done" /\ caller = "fold"
    /\ Len(audio_files) = 3 /\ acc_arg = Secs(300)
    /\ ~Exists(audio_files[1])
    /\ Known(audio_files[2]) /\ outcome[audio_files[2]] = Ok(Secs(99))
    /\ Known(audio_files[3]) /\ outcome[audio_files[3]] = NoSegs
    /\ Len(fold_recs) = 1
    /\ fold_recs[1].start = <<"[", "0", "0", ":", "0", "5", ":", "0", "0", "]">>
    /\ fold_acc = Secs(399)

\* A step of the removal loop of process_audio_file removes chunk files
\* only: part files made by split_audio.
RemovesOnlyChunks ==
    (pc = "paf_remove" /\ paf_k' = paf_k + 1) =>
        \A p \in (DOMAIN files) \ (DOMAIN files') : p.part > 0

\* The audio needed no split (split_audio returned the path it was given)
\* and process_audio_file is over: the source audio is still there.
SourceSurvives ==
    (pc = "paf_done" /\ sp_ret.exc = "none" /\ sp_ret.val = <<paf_output>>) =>
        Exists(paf_output)

\* C14: process_audio_file deletes nothing but the chunk files split_audio
\* made during the call; when the audio needs no split, the source audio
\* (the raw input without normalization, the normalized file with it) still
\* exists after the call.
C14_DeletesOnlyChunks ==
    /\ [][RemovesOnlyChunks]_vars
    /\ []SourceSurvives

\* C15: every call of process_audio_file has released the accelerator
\* memory (cache emptied, garbage collected) when it returns, whether the
\* file was processed or a step failed.
C15_AlwaysReleasesGpu ==
    pc = "paf_done" => gpu_released

\* Step 2 of normalize_audio failed in this step: output_path holds the
\* normalized audio of step 1, as before the step.
FailedFilterKeepsNormalized ==
    (pc = "norm_step2" /\ 2 \in norm_failed') =>
        /\ na_output \in DOMAIN files'
        /\ files'[na_output] = files[na_output]
        /\ files'[na_output].stage = "normalized"

\* output_path was written in step 2: the filter had exited with 0, and the
\* file is the filtered one, the file beside it gone.
ReplaceOnlyAfterSuccess ==
    (pc = "norm_step2" /\ files'[na_output] # files[na_output]) =>
        /\ norm_failed' = norm_failed
        /\ files'[na_output].stage = "denoised"
        /\ denoised_path(na_output) \notin DOMAIN files'

\* C16: in normalize_audio with denoising, the normalized file of step 1 is
\* replaced by the filtered file only after the filter has exited with 0;
\* when the filter fails, output_path still holds the normalized audio of
\* step 1 and nothing is replaced.
C16_ReplaceOnlyOnSuccess ==
    [][FailedFilterKeepsNormalized /\ ReplaceOnlyAfterSuccess]_vars

\* C16's case: the filter failed, leaving a broken file beside output_path,
\* which holds the normalized audio.
C16_Witness ==
    /\ pc = "paf_split"
    /\ norm_failed = {2}
    /\ Exists(na_output) /\ files[na_output].stage = "normalized"
    /\ Exists(denoised_path(na_output))
    /\ files[denoised_path(na_output)].stage = "garbled"

\* The places in audio_files of the chunks that exist and are recognized
\* with text and segments.
RecognizedChunks ==
    {k \in 1..Len(audio_files) :
        /\ Exists(audio_files[k])
        /\ Known(audio_files[k])
        /\ outcome[audio_files[k]].kind = "ok"}

\* The places of the chunks that were skipped: missing, or answered without
\* text, without segments, or by an exception.
SkippedChunks == (1..Len(audio_files)) \ RecognizedChunks

\* C17: a chunk that is missing, has no text or no segments, or fails
\* otherwise than by running out of memory is skipped and the batch goes
\* on: every chunk that is recognized, also after a skipped one, has exactly
\* one record in the list returned, and the records are in chunk order.
\* (Every chunk that exists has been given to the speech model.)
C17_SkippedChunksStopNothing ==
    pc = "batch_done" =>
        LET n == Len(ba_ret.val) IN
        /\ \A k \in 1..Len(audio_files) :
             Exists(audio_files[k]) => Known(audio_files[k])
        /\ Len(ba_src) = n
        /\ {ba_src[i] : i \in 1..n} = RecognizedChunks
        /\ \A i, j \in 1..n : i < j => ba_src[i] < ba_src[j]
        /\ \A i \in 1..n :
             ba_ret.val[i].text = <<"T">> \o DecimalOf(audio_files[ba_src[i]].part)

\* C17's case: of three chunks the first is missing and the second fails,
\* and the third has its record.
C17_Witness ==
    /\ pc = "batch_done"
    /\ Len(audio_files) = 3
    /\ ~Exists(audio_files[1])
    /\ Known(audio_files[2]) /\ outcome[audio_files[2]] = Err
    /\ SkippedChunks = {1, 2}
    /\ ba_src = <<3>>
    /\ ba_ret.val[1].text = <<"T", "3">>

\* The whole seconds a timestamp "[H:MM:SS]" stands for.
SecondsOf(t) ==
    LET n == Len(t) IN
    DigitsValue(SubSeq(t, 2, n - 7)) * 3600
    + DigitsValue(SubSeq(t, n - 5, n - 4)) * 60
    + DigitsValue(SubSeq(t, n - 2, n - 1))

\* C18: in the list transcribe_audio_batch returns, whatever the chunks did
\* (retries after running out of memory included), the starts read from the
\* timestamps never go down along the list: no record starts before a
\* record that precedes it.
C18_StartsNeverGoDown ==
    pc = "batch_done" =>
        \A i, j \in 1..Len(ba_ret.val) :
            i < j => SecondsOf(ba_ret.val[i].start) <= SecondsOf(ba_ret.val[j].start)

\* C18's case: three records returned after a retry that began with time
\* already accumulated, the second chunk shorter than the first.
C18_Witness ==
    /\ pc = "batch_done"
    /\ ooms >= 1
    /\ Len(ba_ret.val) = 3
    /\ SecondsOf(ba_ret.val[1].start) > 0
    /\ ba_ret.val[2].duration < ba_ret.val[1].duration
    /\ SecondsOf(ba_ret.val[1].start) < SecondsOf(ba_ret.val[2].start)
    /\ SecondsOf(ba_ret.val[2].start) < SecondsOf(ba_ret.val[3].start)

\* C19: the set of processed URLs lives for one batch run: a call is
\* skipped only for a URL downloaded in the batch run it belongs to, so a
\* URL downloaded in an earlier run is not skipped in a later one whose
\* calls are not given the earlier run's set, calls that leave
\* processed_urls to its default included.
C19_SetLivesForOneBatch ==
    [][(dl_n' = dl_n + 1 /\ dl_url' \in processed[dl_set'])
       => dl_url' \in dl_acquired]_vars

====
